---- MODULE Spec2Model ----
(***************************************************************************)
(* rhex, a terminal hex viewer (src/src/main.rs).                          *)
(*                                                                         *)
(* The HexView struct is the record hv; every method of HexView is an      *)
(* operator from a HexView record to the HexView record it leaves behind.  *)
(* A Rust panic (assert!, unwrap, expect) is the field hv.panic: once it   *)
(* is set, the rest of the call chain is skipped and the process ends.     *)
(* The terminal (hv.stdout) is what has been printed: the dump rows, the   *)
(* info pane and the highlighted cursor cell.                              *)
(*                                                                         *)
(* The page buffer is a zeroed array overwritten by one read() at          *)
(* page_address, and the file never changes, so the buffer is held as      *)
(* page_len, the number of leading bytes that read() delivered; page(s, i) *)
(* gives the i-th byte of the buffer.                                      *)
(***************************************************************************)
EXTENDS Integers, Sequences, FiniteSets, TLC

HEX_PAGESIZE == 1024

\* ---- bounds of the model ----
MaxFileSize == 66
MaxTermHeight == 11
MaxShort == 1
MinLongFile == 129
MaxLongFile == 130
MaxFlakyFile == 20
MaxDecodeFile == 12
MinPagedFile == 1030
MaxPagedFile == 1030
MaxCacheFile == 2052
CacheSlack == 4
MaxPresses == 6
TallTermHeight == 4102
MaxTallFile == 65540
TallFileSpan == 15

\* ---- program constants ----
MinTermWidth == 80
MinTermHeight == 10
InfoPaneRows == 6
RowWidth == 16

VARIABLES
    pc,          \* "start", "draw" (top of the loop), "read" (blocked in event::read), "exit"
    exit_code,   \* process exit status once pc = "exit" (-1 while running)
    exit_reason, \* why the process ended
    raw_mode,    \* terminal in raw mode
    alt_screen,  \* alternate screen entered
    terminal,    \* what terminal::size() reports: <<columns, rows>>
    disk,        \* the file named on the command line: [size, pattern, flaky]
    hv,          \* the HexView
    last_key,    \* the command handled by the latest key_event ("none" once redrawn)
    before       \* the HexView as it was when that command arrived

vars == <<pc, exit_code, exit_reason, raw_mode, alt_screen, terminal, disk, hv,
          last_key, before>>

Min(a, b) == IF a < b THEN a ELSE b

\* ---- the file on disk ----
Patterns == {1, 2}

\* Byte stored in the file at address a (a < disk.size).
\* pattern 1: 01 02 03 ... (never zero below address 255)
\* pattern 2: 80 FF FF 80 repeated (palindromic windows at even alignment)
FileByte(a) ==
    IF disk.pattern = 1 THEN (a + 1) % 256
    ELSE <<128, 255, 255, 128>>[(a % 4) + 1]

\* ---- outcomes of the seek + read of one page fill ----
\* fail: seek or read returned Err; short: how many bytes fewer than
\* available read() delivered (0 = everything up to end-of-file).
\* A disk that is not flaky always delivers everything.
Delivered == [fail |-> FALSE, short |-> 0]
IoOutcomes ==
    IF disk.flaky
    THEN {[fail |-> FALSE, short |-> k] : k \in 0..MaxShort} \cup {[fail |-> TRUE, short |-> 0]}
    ELSE {Delivered}

\* ---- Endiannes ----
LittleEndian == "little"
BigEndian == "big"

\* ---- the terminal ----
Unavailable == [avail |-> FALSE, i |-> [neg |-> FALSE, mag |-> <<>>], u |-> <<>>, hex |-> <<>>]
NoFloat == [avail |-> FALSE, bits |-> <<>>]
NoCursor == [shown |-> FALSE, x |-> 0, y |-> 0, byte |-> 0, char |-> 0]
BlankInfo == [pos |-> -1, size |-> -1, w1 |-> Unavailable, w2 |-> Unavailable,
              w4 |-> Unavailable, w8 |-> Unavailable, f32 |-> NoFloat, f64 |-> NoFloat,
              endian |-> "none"]
BlankScreen == [dump |-> <<>>, info |-> BlankInfo, cursor |-> NoCursor]

\* ---- HexView::new ----
new(terminal_size) ==
    [ terminal_width |-> terminal_size[1],
      terminal_height |-> terminal_size[2],
      view_height |-> terminal_size[2] - InfoPaneRows,
      cursor_x |-> 0,
      cursor_y |-> 0,
      endian |-> LittleEndian,
      filesize |-> 0,
      offset |-> 0,
      page_address |-> 0,
      page_len |-> 0,
      update_needed |-> FALSE,
      panic |-> "none",
      stdout |-> BlankScreen ]

\* i-th byte of the page buffer
page(s, i) ==
    IF i < s.page_len THEN FileByte(s.page_address + i) ELSE 0

\* number of bytes the file holds from address pa on, at most one page
Available(pa) ==
    IF disk.size > pa THEN Min(HEX_PAGESIZE, disk.size - pa) ELSE 0

\* result of read(&mut self.page): the number of bytes the OS delivered
ReadCount(pa, io) ==
    IF io.short < Available(pa) THEN Available(pa) - io.short ELSE Available(pa)

\* mutant: the refill does not ask for a full redraw
page_fault_NoRedraw(s, address, io) ==
    LET pa == (address \div HEX_PAGESIZE) * HEX_PAGESIZE
    IN IF s.panic # "none" THEN s
       ELSE IF io.fail THEN [s EXCEPT !.page_address = pa, !.page_len = 0, !.panic = "io error"]
       ELSE [s EXCEPT !.page_address = pa, !.page_len = ReadCount(pa, io)]

\* mutant: the page starts at the address asked for
page_fault_Unaligned(s, address, io) ==
    LET pa == address
    IN IF s.panic # "none" THEN s
       ELSE IF io.fail THEN [s EXCEPT !.page_address = pa, !.page_len = 0, !.panic = "io error"]
       ELSE [s EXCEPT !.page_address = pa,
                      !.page_len = ReadCount(pa, io),
                      !.update_needed = TRUE]

page_fault(s, address, io) ==
    LET pa == (address \div HEX_PAGESIZE) * HEX_PAGESIZE
    IN IF s.panic # "none" THEN s
       ELSE IF io.fail THEN [s EXCEPT !.page_address = pa, !.page_len = 0, !.panic = "io error"]
       ELSE [s EXCEPT !.page_address = pa,
                      !.page_len = ReadCount(pa, io),
                      !.update_needed = TRUE]

InPage(s, address) ==
    address >= s.page_address /\ address < s.page_address + HEX_PAGESIZE

\* HexView::at: the HexView it leaves and the byte it returns
at(s, address, io) ==
    LET Fetched(f) == [hv |-> f, byte |-> page(f, address - f.page_address)]
    IN IF s.panic # "none" THEN [hv |-> s, byte |-> 0]
       ELSE IF ~(address < s.filesize) THEN [hv |-> [s EXCEPT !.panic = "assert at"], byte |-> 0]
       ELSE IF InPage(s, address) THEN Fetched(s)
       ELSE Fetched(page_fault(s, address, io))

\* at() called on each address of addrs in turn: the bytes returned and the
\* HexView left behind (after a panic no call is made and the bytes are not used)
RECURSIVE at_each(_, _, _)
at_each(s, addrs, io) ==
    LET h == Len(addrs) \div 2
        One(r) == [bytes |-> <<r.byte>>, hv |-> r.hv]
        Both(first, rest) == [bytes |-> first.bytes \o rest.bytes, hv |-> rest.hv]
        Rest(first) ==
            IF first.hv.panic # "none" THEN first
            ELSE Both(first, at_each(first.hv, SubSeq(addrs, h + 1, Len(addrs)), io))
    IN IF Len(addrs) = 0 THEN [bytes |-> <<>>, hv |-> s]
       ELSE IF Len(addrs) = 1 THEN One(at(s, addrs[1], io))
       ELSE Rest(at_each(s, SubSeq(addrs, 1, h), io))

\* the addresses addr .. addr+n-1 that lie before end-of-file
Visible(s, addr, n) ==
    [i \in 1..(IF addr >= s.filesize THEN 0 ELSE Min(n, s.filesize - addr)) |-> addr + i - 1]

\* printable ASCII stays, everything else prints as '.'
Printable(c) == IF c >= 32 /\ c <= 126 THEN c ELSE 46

clearscreen(s) ==
    IF s.panic # "none" THEN s ELSE [s EXCEPT !.stdout = BlankScreen]

\* one printed row of the dump: at() for the left eight hex bytes, for the right
\* eight, then for the sixteen characters
draw_hexdump_line(s, y, io) ==
    LET addr == s.offset + y * RowWidth
        n == Len(Visible(s, addr, RowWidth))
        Printed(r) ==
            IF r.hv.panic # "none" THEN r.hv
            ELSE [r.hv EXCEPT !.stdout.dump =
                     Append(s.stdout.dump,
                            [addr |-> addr,
                             hex |-> SubSeq(r.bytes, 1, n),
                             ascii |-> [i \in 1..n |-> Printable(r.bytes[n + i])]])]
    IN IF s.panic # "none" \/ addr >= s.filesize THEN s
       ELSE Printed(at_each(s, Visible(s, addr, 8) \o Visible(s, addr + 8, 8)
                               \o Visible(s, addr, RowWidth), io))

RECURSIVE draw_hexdump_from(_, _, _)
draw_hexdump_from(s, y, io) ==
    IF s.panic # "none" \/ y >= s.view_height THEN s
    ELSE draw_hexdump_from(draw_hexdump_line(s, y, io), y + 1, io)

draw_hexdump(s, io) == draw_hexdump_from(s, 0, io)

\* ---- decoding ----
Reverse(b) == [i \in 1..Len(b) |-> b[Len(b) + 1 - i]]

\* An unsigned integer of Len(b) bytes is held as its base-256 digits, most
\* significant first.
from_le_bytes(b) == Reverse(b)
from_be_bytes(b) == b

\* digits + 1 (mod 256^Len)
RECURSIVE Increment(_)
Increment(d) ==
    IF d = <<>> THEN <<>>
    ELSE IF d[Len(d)] < 255 THEN [d EXCEPT ![Len(d)] = d[Len(d)] + 1]
    ELSE Append(Increment(SubSeq(d, 1, Len(d) - 1)), 0)

\* two's-complement reading of the digits: sign and magnitude
Signed(d) ==
    IF d[1] >= 128
    THEN [neg |-> TRUE, mag |-> Increment([i \in 1..Len(d) |-> 255 - d[i]])]
    ELSE [neg |-> FALSE, mag |-> d]

\* mutant: the two branches exchanged
Decode_Swapped(endian, b) ==
    IF endian = LittleEndian THEN from_be_bytes(b) ELSE from_le_bytes(b)

Decode(endian, b) == IF endian = LittleEndian THEN from_le_bytes(b) ELSE from_be_bytes(b)

IntField(d) == [avail |-> TRUE, i |-> Signed(d), u |-> d, hex |-> d]

FloatField(d) == [avail |-> TRUE, bits |-> d]

PutInfo(s, key, val) ==
    IF s.panic # "none" THEN s
    ELSE [s EXCEPT !.stdout.info = [s.stdout.info EXCEPT ![key] = val]]

\* the line for an integer (or float) read by at_each
PutInt(r, key, endian) ==
    IF r.hv.panic # "none" THEN r.hv
    ELSE PutInfo(r.hv, key, IntField(Decode(endian, r.bytes)))

PutFloat(r, key, endian) ==
    IF r.hv.panic # "none" THEN r.hv
    ELSE PutInfo(r.hv, key, FloatField(Decode(endian, r.bytes)))

draw_info_address(s, pos) ==
    IF s.panic # "none" THEN s
    ELSE [s EXCEPT !.stdout.info = [s.stdout.info EXCEPT !.pos = pos, !.size = s.filesize]]

draw_info_i8(s, pos, io) ==
    LET Put(r) ==
            IF r.hv.panic # "none" THEN r.hv
            ELSE PutInfo(r.hv, "w1", [avail |-> TRUE, i |-> Signed(<<r.bytes[1]>>),
                                      u |-> <<r.bytes[2]>>, hex |-> <<r.bytes[2]>>])
    IN IF s.panic # "none" THEN s
       ELSE IF pos < s.filesize THEN Put(at_each(s, <<pos, pos>>, io))
       ELSE PutInfo(s, "w1", Unavailable)

draw_info_i16(s, pos, io) ==
    IF s.panic # "none" THEN s
    ELSE IF pos + 1 < s.filesize
    THEN PutInt(at_each(s, <<pos, pos + 1>>, io), "w2", s.endian)
    ELSE PutInfo(s, "w2", Unavailable)

\* mutant: the bound checked one byte too far
draw_info_i32_OffByOne(s, pos, io) ==
    IF s.panic # "none" THEN s
    ELSE IF pos + 4 < s.filesize
    THEN PutInt(at_each(s, <<pos, pos + 1, pos + 2, pos + 3>>, io), "w4", s.endian)
    ELSE PutInfo(s, "w4", Unavailable)

draw_info_i32(s, pos, io) ==
    IF s.panic # "none" THEN s
    ELSE IF pos + 3 < s.filesize
    THEN PutInt(at_each(s, <<pos, pos + 1, pos + 2, pos + 3>>, io), "w4", s.endian)
    ELSE PutInfo(s, "w4", Unavailable)

draw_info_i64(s, pos, io) ==
    IF s.panic # "none" THEN s
    ELSE IF pos + 7 < s.filesize
    THEN PutInt(at_each(s, <<pos, pos + 1, pos + 2, pos + 3,
                             pos + 4, pos + 5, pos + 6, pos + 7>>, io), "w8", s.endian)
    ELSE PutInfo(s, "w8", Unavailable)

draw_info_f32_f64_and_endianness(s, pos, io) ==
    LET F32(x) ==
            IF x.panic # "none" THEN x
            ELSE IF pos + 3 < x.filesize
            THEN PutFloat(at_each(x, <<pos, pos + 1, pos + 2, pos + 3>>, io), "f32", x.endian)
            ELSE PutInfo(x, "f32", NoFloat)
        F64(x) ==
            IF x.panic # "none" THEN x
            ELSE IF pos + 7 < x.filesize
            THEN PutFloat(at_each(x, <<pos, pos + 1, pos + 2, pos + 3,
                                       pos + 4, pos + 5, pos + 6, pos + 7>>, io),
                          "f64", x.endian)
            ELSE PutInfo(x, "f64", NoFloat)
    IN IF s.panic # "none" THEN s
       ELSE PutInfo(F64(F32(s)), "endian", s.endian)

Pos(s) == s.offset + s.cursor_y * RowWidth + s.cursor_x

draw_bottom_pane(s, io) ==
    LET pos == Pos(s)
    IN IF s.panic # "none" THEN s
       ELSE draw_info_f32_f64_and_endianness(
                draw_info_i64(
                    draw_info_i32(
                        draw_info_i16(
                            draw_info_i8(
                                draw_info_address(s, pos), pos, io), pos, io), pos, io),
                    pos, io), pos, io)

\* ---- the cursor ----
\* the cell (x, y) of the dump printed over, where the dump has such a cell
Overdraw(dump, x, y, byte, char) ==
    IF y < Len(dump) /\ x < Len(dump[y + 1].hex)
    THEN [dump EXCEPT ![y + 1].hex[x + 1] = byte, ![y + 1].ascii[x + 1] = char]
    ELSE dump

erase_cursor(s, io) ==
    LET data_pos == Pos(s)
        Printed(r) ==
            IF r.hv.panic # "none" THEN r.hv
            ELSE [r.hv EXCEPT !.stdout.cursor = NoCursor,
                              !.stdout.dump = Overdraw(s.stdout.dump, s.cursor_x, s.cursor_y,
                                                       r.bytes[1], Printable(r.bytes[2]))]
    IN IF s.panic # "none" THEN s
       ELSE Printed(at_each(s, <<data_pos, data_pos>>, io))

draw_cursor(s, io) ==
    LET data_pos == Pos(s)
        Printed(r) ==
            IF r.hv.panic # "none" THEN r.hv
            ELSE [r.hv EXCEPT !.stdout.cursor =
                     [shown |-> TRUE, x |-> s.cursor_x, y |-> s.cursor_y,
                      byte |-> r.bytes[1], char |-> Printable(r.bytes[2])]]
    IN IF s.panic # "none" THEN s
       ELSE IF ~(data_pos < s.filesize) THEN [s EXCEPT !.panic = "assert draw_cursor"]
       ELSE Printed(at_each(s, <<data_pos, data_pos>>, io))

update_cursor(s, io) ==
    IF s.panic # "none" THEN s
    ELSE draw_bottom_pane(draw_cursor(s, io), io)

\* mutant: the cursor drawn before the info pane
draw_screen_CursorFirst(s, io) ==
    LET Drawn(d) == IF d.panic # "none" THEN d ELSE [d EXCEPT !.update_needed = FALSE]
    IN IF ~s.update_needed \/ s.panic # "none" THEN s
       ELSE Drawn(draw_bottom_pane(draw_cursor(draw_hexdump(clearscreen(s), io), io), io))

draw_screen(s, io) ==
    LET Drawn(d) == IF d.panic # "none" THEN d ELSE [d EXCEPT !.update_needed = FALSE]
    IN IF ~s.update_needed \/ s.panic # "none" THEN s
       ELSE Drawn(draw_cursor(draw_bottom_pane(draw_hexdump(clearscreen(s), io), io), io))

\* ---- byte order commands ----
toggle_endianness(s, io) ==
    IF s.panic # "none" THEN s
    ELSE draw_bottom_pane([s EXCEPT !.endian = IF s.endian = LittleEndian THEN BigEndian
                                          ELSE LittleEndian], io)

\* mutant: the test inverted
key_little_endian_Inverted(s, io) ==
    IF s.endian = BigEndian THEN s ELSE toggle_endianness(s, io)

key_little_endian(s, io) ==
    IF s.endian = LittleEndian THEN s ELSE toggle_endianness(s, io)

key_big_endian(s, io) ==
    IF s.endian = BigEndian THEN s ELSE toggle_endianness(s, io)

\* ---- navigation commands ----
\* the tail shared by the handlers: redraw the cursor unless a full redraw is pending
Finish(s, io) ==
    IF s.panic # "none" THEN s
    ELSE IF ~s.update_needed THEN update_cursor(s, io) ELSE s

\* mutant: no check against end-of-file
key_right_NoEof(s, io) ==
    LET Moved(e) ==
            IF e.panic # "none" THEN e
            ELSE IF e.cursor_x + 1 >= RowWidth
            THEN IF e.cursor_y + 1 >= e.view_height
                 THEN [e EXCEPT !.cursor_x = 0,
                                !.cursor_y = e.view_height - 1,
                                !.offset = e.offset + RowWidth,
                                !.update_needed = TRUE]
                 ELSE [e EXCEPT !.cursor_x = 0, !.cursor_y = e.cursor_y + 1]
            ELSE [e EXCEPT !.cursor_x = e.cursor_x + 1]
    IN Finish(Moved(erase_cursor(s, io)), io)

key_right(s, io) ==
    LET pos == Pos(s) + 1
        Moved(e) ==
            IF e.panic # "none" THEN e
            ELSE IF e.cursor_x + 1 >= RowWidth
            THEN IF e.cursor_y + 1 >= e.view_height
                 THEN [e EXCEPT !.cursor_x = 0,
                                !.cursor_y = e.view_height - 1,
                                !.offset = e.offset + RowWidth,
                                !.update_needed = TRUE]
                 ELSE [e EXCEPT !.cursor_x = 0, !.cursor_y = e.cursor_y + 1]
            ELSE [e EXCEPT !.cursor_x = e.cursor_x + 1]
    IN IF pos >= s.filesize THEN s
       ELSE Finish(Moved(erase_cursor(s, io)), io)

\* mutant: no early return at position 0
key_left_NoGuard(s, io) ==
    LET Moved(e) ==
            IF e.panic # "none" THEN e
            ELSE IF e.cursor_x = 0
            THEN IF e.cursor_y = 0
                 THEN [e EXCEPT !.offset = e.offset - RowWidth,
                                !.update_needed = TRUE,
                                !.cursor_x = 15]
                 ELSE [e EXCEPT !.cursor_y = e.cursor_y - 1, !.cursor_x = 15]
            ELSE [e EXCEPT !.cursor_x = e.cursor_x - 1]
    IN Finish(Moved(erase_cursor(s, io)), io)

key_left(s, io) ==
    LET pos == Pos(s)
        Moved(e) ==
            IF e.panic # "none" THEN e
            ELSE IF e.cursor_x = 0
            THEN IF e.cursor_y = 0
                 THEN [e EXCEPT !.offset = e.offset - RowWidth,
                                !.update_needed = TRUE,
                                !.cursor_x = 15]
                 ELSE [e EXCEPT !.cursor_y = e.cursor_y - 1, !.cursor_x = 15]
            ELSE [e EXCEPT !.cursor_x = e.cursor_x - 1]
    IN IF pos = 0 THEN s
       ELSE Finish(Moved(erase_cursor(s, io)), io)

key_down(s, io) ==
    LET pos == s.offset + (s.cursor_y + 1) * RowWidth + s.cursor_x
        eof == (s.filesize - 1 - s.offset) % 65536      \* as u16
        cy == eof \div RowWidth
        cx == eof % RowWidth
        Clamped(e) ==
            IF e.panic # "none" THEN e ELSE [e EXCEPT !.cursor_x = cx, !.cursor_y = cy]
        Moved(e) ==
            IF e.panic # "none" THEN e
            ELSE IF e.cursor_y + 1 >= e.view_height
            THEN [e EXCEPT !.cursor_y = e.view_height - 1,
                           !.offset = e.offset + RowWidth,
                           !.update_needed = TRUE]
            ELSE [e EXCEPT !.cursor_y = e.cursor_y + 1]
    IN IF pos >= s.filesize
       THEN IF s.cursor_x # cx \/ s.cursor_y # cy
            THEN update_cursor(Clamped(erase_cursor(s, io)), io)
            ELSE s
       ELSE Finish(Moved(erase_cursor(s, io)), io)

\* mutant: the jump to the start taken from the second row as well
key_up_JumpEarly(s, io) ==
    LET pos == Pos(s)
        Top(e) ==
            IF e.panic # "none" THEN e
            ELSE [e EXCEPT !.offset = 0, !.cursor_x = 0, !.cursor_y = 0]
        Moved(e) ==
            IF e.panic # "none" THEN e
            ELSE IF e.cursor_y = 0
            THEN [e EXCEPT !.offset = e.offset - RowWidth, !.update_needed = TRUE]
            ELSE [e EXCEPT !.cursor_y = e.cursor_y - 1]
    IN IF pos = 0 THEN s
       ELSE IF pos < 2 * RowWidth THEN update_cursor(Top(erase_cursor(s, io)), io)
       ELSE Finish(Moved(erase_cursor(s, io)), io)

key_up(s, io) ==
    LET pos == Pos(s)
        Top(e) ==
            IF e.panic # "none" THEN e
            ELSE [e EXCEPT !.offset = 0, !.cursor_x = 0, !.cursor_y = 0]
        Moved(e) ==
            IF e.panic # "none" THEN e
            ELSE IF e.cursor_y = 0
            THEN [e EXCEPT !.offset = e.offset - RowWidth, !.update_needed = TRUE]
            ELSE [e EXCEPT !.cursor_y = e.cursor_y - 1]
    IN IF pos = 0 THEN s
       ELSE IF pos < RowWidth THEN update_cursor(Top(erase_cursor(s, io)), io)
       ELSE Finish(Moved(erase_cursor(s, io)), io)

\* mutant: the snap to offset 0 puts the cursor on row 0
key_pageup_Row0(s, io) ==
    LET one_page == s.view_height * RowWidth
        pos == s.offset + s.cursor_y * RowWidth
        Column0(e) == IF e.panic # "none" THEN e ELSE [e EXCEPT !.cursor_x = 0]
        Row0(e) == IF e.panic # "none" THEN e ELSE [e EXCEPT !.cursor_y = 0]
    IN IF pos < one_page
       THEN IF s.cursor_y = 0
            THEN IF s.cursor_x = 0 THEN s
                 ELSE update_cursor(Column0(erase_cursor(s, io)), io)
            ELSE update_cursor(Row0(erase_cursor(s, io)), io)
       ELSE IF pos < one_page * 2
            THEN [s EXCEPT !.offset = 0, !.cursor_y = 0, !.update_needed = TRUE]
       ELSE IF ~(s.offset >= one_page) THEN [s EXCEPT !.panic = "assert key_pageup"]
       ELSE [s EXCEPT !.offset = s.offset - one_page, !.update_needed = TRUE]

\* mutant: on row 0 of the first page the column is kept
key_pageup_KeepColumn(s, io) ==
    LET one_page == s.view_height * RowWidth
        pos == s.offset + s.cursor_y * RowWidth
        Row0(e) == IF e.panic # "none" THEN e ELSE [e EXCEPT !.cursor_y = 0]
    IN IF pos < one_page
       THEN IF s.cursor_y = 0 THEN s
            ELSE update_cursor(Row0(erase_cursor(s, io)), io)
       ELSE IF pos < one_page * 2
            THEN [s EXCEPT !.offset = 0,
                           !.cursor_y = (pos - one_page) \div RowWidth,
                           !.update_needed = TRUE]
       ELSE IF ~(s.offset >= one_page) THEN [s EXCEPT !.panic = "assert key_pageup"]
       ELSE [s EXCEPT !.offset = s.offset - one_page, !.update_needed = TRUE]

key_pageup(s, io) ==
    LET one_page == s.view_height * RowWidth
        pos == s.offset + s.cursor_y * RowWidth
        Column0(e) == IF e.panic # "none" THEN e ELSE [e EXCEPT !.cursor_x = 0]
        Row0(e) == IF e.panic # "none" THEN e ELSE [e EXCEPT !.cursor_y = 0]
    IN IF pos < one_page
       THEN IF s.cursor_y = 0
            THEN IF s.cursor_x = 0 THEN s
                 ELSE update_cursor(Column0(erase_cursor(s, io)), io)
            ELSE update_cursor(Row0(erase_cursor(s, io)), io)
       ELSE IF pos < one_page * 2
            THEN [s EXCEPT !.offset = 0,
                           !.cursor_y = (pos - one_page) \div RowWidth,
                           !.update_needed = TRUE]
       ELSE IF ~(s.offset >= one_page) THEN [s EXCEPT !.panic = "assert key_pageup"]
       ELSE [s EXCEPT !.offset = s.offset - one_page, !.update_needed = TRUE]

\* the start of the last page
EndOffset(s) ==
    LET one_page == s.view_height * RowWidth
    IN IF s.filesize <= one_page THEN 0
       ELSE ((s.filesize + 15) \div RowWidth) * RowWidth - one_page

\* mutant: the cursor computed from filesize instead of filesize - 1
key_end_OffByOne(s, io) ==
    LET end_offset == EndOffset(s)
        cx == (s.filesize - end_offset) % RowWidth
        cy == (s.filesize - end_offset) \div RowWidth
        Placed(j) == IF j.panic # "none" THEN j ELSE [j EXCEPT !.cursor_x = cx, !.cursor_y = cy]
    IN IF ~(cy < s.view_height) THEN [s EXCEPT !.panic = "assert key_end"]
       ELSE IF s.offset = end_offset /\ s.cursor_x = cx /\ s.cursor_y = cy THEN s
       ELSE Finish(Placed(IF s.offset # end_offset
                          THEN [s EXCEPT !.offset = end_offset, !.update_needed = TRUE]
                          ELSE erase_cursor(s, io)), io)

key_end(s, io) ==
    LET end_offset == EndOffset(s)
        cx == (s.filesize - 1 - end_offset) % RowWidth
        cy == (s.filesize - 1 - end_offset) \div RowWidth
        Placed(j) == IF j.panic # "none" THEN j ELSE [j EXCEPT !.cursor_x = cx, !.cursor_y = cy]
    IN IF ~(cy < s.view_height) THEN [s EXCEPT !.panic = "assert key_end"]
       ELSE IF s.offset = end_offset /\ s.cursor_x = cx /\ s.cursor_y = cy THEN s
       ELSE Finish(Placed(IF s.offset # end_offset
                          THEN [s EXCEPT !.offset = end_offset, !.update_needed = TRUE]
                          ELSE erase_cursor(s, io)), io)

\* mutant: no deferral to End
key_pagedown_NoClamp(s, io) ==
    LET one_page == s.view_height * RowWidth
    IN [s EXCEPT !.offset = s.offset + one_page, !.update_needed = TRUE]

\* mutant: the move that reaches end_offset exactly is not deferred to End
key_pagedown_Late(s, io) ==
    LET one_page == s.view_height * RowWidth
        end_offset == EndOffset(s)
    IN IF s.offset + one_page > end_offset THEN key_end(s, io)
       ELSE [s EXCEPT !.offset = s.offset + one_page, !.update_needed = TRUE]

key_pagedown(s, io) ==
    LET one_page == s.view_height * RowWidth
        end_offset == EndOffset(s)
    IN IF s.offset + one_page >= end_offset THEN key_end(s, io)
       ELSE [s EXCEPT !.offset = s.offset + one_page, !.update_needed = TRUE]

key_home(s, io) ==
    LET Placed(j) ==
            IF j.panic # "none" THEN j
            ELSE [j EXCEPT !.offset = 0, !.cursor_x = 0, !.cursor_y = 0]
    IN IF s.offset = 0 /\ s.cursor_x = 0 /\ s.cursor_y = 0 THEN s
       ELSE Finish(Placed(IF s.offset > 0 THEN [s EXCEPT !.update_needed = TRUE]
                          ELSE erase_cursor(s, io)), io)

Keys == {"Right", "Left", "Up", "Down", "PageUp", "PageDown", "Home", "End",
         "e", "l", "b", "other"}

key_event(s, key, io) ==
    CASE key = "Right" -> key_right(s, io)
      [] key = "Left" -> key_left(s, io)
      [] key = "Up" -> key_up(s, io)
      [] key = "Down" -> key_down(s, io)
      [] key = "PageUp" -> key_pageup(s, io)
      [] key = "PageDown" -> key_pagedown(s, io)
      [] key = "Home" -> key_home(s, io)
      [] key = "End" -> key_end(s, io)
      [] key = "e" -> toggle_endianness(s, io)
      [] key = "l" -> key_little_endian(s, io)
      [] key = "b" -> key_big_endian(s, io)
      [] OTHER -> s

\* ---- HexView::load ----
\* opened, statted: whether File::open and fs::metadata succeed
load(s, opened, statted, io) ==
    IF ~opened THEN [s EXCEPT !.panic = "open failed"]
    ELSE IF ~statted THEN [s EXCEPT !.panic = "stat failed"]
    ELSE IF disk.size = 0 THEN [s EXCEPT !.filesize = 0, !.panic = "exit: empty file"]
    ELSE page_fault([s EXCEPT !.filesize = disk.size], 0, io)

\* ---- process ----
PanicStatus == 101

Die(code, why) ==
    /\ pc' = "exit"
    /\ exit_code' = code
    /\ exit_reason' = why

\* main() up to the top of the event loop
Startup ==
    /\ pc = "start"
    /\ \E is_tty \in BOOLEAN, argc \in 1..2,
          opened \in BOOLEAN, statted \in BOOLEAN, io \in IoOutcomes :
         LET loaded == load(new(terminal), opened, statted, io)
         IN IF ~is_tty
            THEN Die(1, "not a tty") /\ UNCHANGED <<hv, raw_mode, alt_screen>>
            ELSE IF terminal[1] < MinTermWidth
            THEN Die(1, "terminal not wide enough") /\ UNCHANGED <<hv, raw_mode, alt_screen>>
            ELSE IF terminal[2] < MinTermHeight
            THEN Die(1, "terminal not high enough") /\ UNCHANGED <<hv, raw_mode, alt_screen>>
            ELSE IF argc <= 1
            THEN Die(1, "usage") /\ UNCHANGED <<hv, raw_mode, alt_screen>>
            ELSE IF loaded.panic = "exit: empty file"
            THEN Die(1, "empty file") /\ hv' = loaded /\ UNCHANGED <<raw_mode, alt_screen>>
            ELSE IF loaded.panic # "none"
            THEN Die(PanicStatus, loaded.panic) /\ hv' = loaded
                 /\ UNCHANGED <<raw_mode, alt_screen>>
            ELSE /\ hv' = loaded
                 /\ raw_mode' = TRUE
                 /\ alt_screen' = TRUE
                 /\ pc' = "draw"
                 /\ UNCHANGED <<exit_code, exit_reason>>
    /\ before' = hv'
    /\ UNCHANGED <<terminal, disk, last_key>>

\* hexview.draw_screen() at the top of the loop, then block in event::read()
DrawScreen ==
    /\ pc = "draw"
    /\ \E io \in IoOutcomes :
         LET d == draw_screen(hv, io)
         IN /\ hv' = d
            /\ IF d.panic # "none"
               THEN Die(PanicStatus, d.panic)
               ELSE pc' = "read" /\ UNCHANGED <<exit_code, exit_reason>>
    /\ last_key' = "none"
    /\ before' = hv'
    /\ UNCHANGED <<raw_mode, alt_screen, terminal, disk>>

\* a key other than Esc and 'q' arrives
KeyEvent(key) ==
    /\ pc = "read"
    /\ \E io \in IoOutcomes :
         LET k == key_event(hv, key, io)
         IN /\ hv' = k
            /\ IF k.panic # "none"
               THEN Die(PanicStatus, k.panic)
               ELSE pc' = "draw" /\ UNCHANGED <<exit_code, exit_reason>>
    /\ last_key' = key
    /\ before' = hv
    /\ UNCHANGED <<raw_mode, alt_screen, terminal, disk>>

\* Esc or 'q': leave the loop, restore the terminal, return Ok
Quit ==
    /\ pc = "read"
    /\ Die(0, "quit")
    /\ raw_mode' = FALSE
    /\ alt_screen' = FALSE
    /\ last_key' = "q"
    /\ UNCHANGED <<hv, before, terminal, disk>>

Next ==
    \/ Startup
    \/ DrawScreen
    \/ \E key \in Keys : KeyEvent(key)
    \/ Quit

\* the process before main() runs; hv holds no HexView yet
InitWith(sizes, patterns, flaky, heights) ==
    /\ pc = "start"
    /\ exit_code = -1
    /\ exit_reason = "none"
    /\ raw_mode = FALSE
    /\ alt_screen = FALSE
    /\ terminal \in ({MinTermWidth} \X heights) \cup {<<MinTermWidth - 1, MinTermHeight>>}
    /\ disk \in [size : sizes, pattern : patterns, flaky : flaky]
    /\ hv = new(<<0, InfoPaneRows>>)
    /\ last_key = "none"
    /\ before = hv

\* files of up to MaxFileSize bytes on a reliable disk
Init == InitWith(0..MaxFileSize, {1}, {FALSE}, (MinTermHeight - 1)..MaxTermHeight)

Spec == Init /\ [][Next]_vars

\* files long enough to hold two pages of the view and more, on a reliable disk
InitLong == InitWith(MinLongFile..MaxLongFile, {1}, {FALSE}, {MinTermHeight})

SpecLong == InitLong /\ [][Next]_vars

\* short files on a disk whose reads may fall short or fail
InitFlaky == InitWith(1..MaxFlakyFile, {1}, {TRUE}, {MinTermHeight})

SpecFlaky == InitFlaky /\ [][Next]_vars

\* short files of every pattern, for the decoder
InitDecode == InitWith(1..MaxDecodeFile, Patterns, {FALSE}, {MinTermHeight})

SpecDecode == InitDecode /\ [][Next]_vars

\* files that reach into a second cache page, on a reliable disk
InitPaged == InitWith(MinPagedFile..MaxPagedFile, {1}, {FALSE}, {MinTermHeight})

SpecPaged == InitPaged /\ [][Next]_vars

\* ---- the page cache on its own: load, then at() on any address ----
\* file sizes within CacheSlack bytes of a page boundary (and the shortest files)
CacheSizes ==
    {n \in 1..MaxCacheFile : \/ n % HEX_PAGESIZE <= CacheSlack
                             \/ n % HEX_PAGESIZE >= HEX_PAGESIZE - CacheSlack}

\* one call of at(address) on the loaded file
Access(address) ==
    /\ pc = "draw"
    /\ address < hv.filesize
    /\ \E io \in IoOutcomes :
         /\ hv' = at(hv, address, io).hv
         /\ IF hv'.panic # "none"
            THEN Die(PanicStatus, hv'.panic)
            ELSE UNCHANGED <<pc, exit_code, exit_reason>>
    /\ last_key' = "at"
    /\ before' = hv
    /\ UNCHANGED <<raw_mode, alt_screen, terminal, disk>>

NextCache ==
    \/ Startup
    \/ \E address \in 0..(MaxCacheFile - 1) : Access(address)

InitCache == InitWith(CacheSizes, {1}, {FALSE}, {MinTermHeight})

SpecCache == InitCache /\ [][NextCache]_vars

\* ---- Down on a tall terminal ----
\* The HexView when the loop blocks for input with the view at `offset` and the
\* cursor at (cx, cy): the cursor's page is cached and no redraw is pending.
\* What is printed on the terminal is left out of these states: with thousands
\* of rows it is not drawn here, and Down's arithmetic reads none of it.
Arrived(terminal_size, offset, cx, cy) ==
    LET pa == ((offset + cy * RowWidth + cx) \div HEX_PAGESIZE) * HEX_PAGESIZE
    IN [new(terminal_size) EXCEPT !.filesize = disk.size,
                                  !.offset = offset,
                                  !.cursor_x = cx,
                                  !.cursor_y = cy,
                                  !.page_address = pa,
                                  !.page_len = Available(pa),
                                  !.update_needed = FALSE]

\* a session on a terminal of MinTermHeight or TallTermHeight rows, on a file of
\* about 64 KiB, waiting for input with the view at the start or on the last page
\* and the cursor on the top or the bottom row
InitTall ==
    /\ pc = "read"
    /\ exit_code = -1
    /\ exit_reason = "none"
    /\ raw_mode = TRUE
    /\ alt_screen = TRUE
    /\ terminal \in {MinTermWidth} \X {MinTermHeight, TallTermHeight}
    /\ disk \in [size : (MaxTallFile - TallFileSpan)..MaxTallFile, pattern : {1}, flaky : {FALSE}]
    /\ \E cx \in 0..(RowWidth - 1), cy \in {0, terminal[2] - InfoPaneRows - 1},
          offset \in {0, EndOffset([filesize |-> disk.size,
                                    view_height |-> terminal[2] - InfoPaneRows])} :
         /\ offset + cy * RowWidth + cx < disk.size
         /\ hv = Arrived(terminal, offset, cx, cy)
    /\ last_key = "none"
    /\ before = hv

NextTall == KeyEvent("Down")

SpecTall == InitTall /\ [][NextTall]_vars

\* ---------------------------------------------------------------------
\* Properties
\* ---------------------------------------------------------------------
Running == pc \in {"draw", "read"}

\* the command `key` has just been handled and returned
Handled(key) == pc = "draw" /\ last_key = key

Max(a, b) == IF a > b THEN a ELSE b

\* end_offset as the specification words it: max(0, ceil(filesize/16)*16 - view_height*16)
Ceil16(n) == IF n % 16 = 0 THEN n ELSE n + (16 - (n % 16))
LastPageStart(s) == Max(0, Ceil16(s.filesize) - s.view_height * 16)

\* C1: after every navigation command, offset is a multiple of 16, cursor_x < 16,
\* cursor_y < view_height and the cursor's absolute position is below filesize.
C1_ViewportInvariant ==
    Running =>
        /\ hv.offset % 16 = 0
        /\ hv.cursor_x < 16
        /\ hv.cursor_y < hv.view_height
        /\ Pos(hv) < hv.filesize

\* C2: no assert! of the program ever fails.
C2_NoFatalAssertion ==
    exit_reason \notin {"assert at", "assert draw_cursor", "assert key_end", "assert key_pageup"}

\* C3: End leaves the cursor on the last byte of the file, with offset at the
\* start of the last page.
C3_EndReachesLastByte ==
    last_key = "End" =>
        /\ pc = "draw"
        /\ Pos(hv) = hv.filesize - 1
        /\ hv.offset = LastPageStart(hv)

C3_Witness ==
    /\ Handled("End")
    /\ Pos(before) # before.filesize - 1
    /\ before.offset # LastPageStart(before)
    /\ Pos(hv) = hv.filesize - 1
    /\ hv.offset > 0

\* C4: Left at position 0, Right at position filesize-1, Home at the start and End
\* at the end state leave offset, cursor and the pending-redraw flag as they were.
SameView(a, b) ==
    /\ a.offset = b.offset
    /\ a.cursor_x = b.cursor_x
    /\ a.cursor_y = b.cursor_y
    /\ a.update_needed = b.update_needed

C4_BoundaryNoOps ==
    /\ (Handled("Left") /\ Pos(before) = 0) => SameView(hv, before)
    /\ (Handled("Right") /\ Pos(before) = before.filesize - 1) => SameView(hv, before)
    /\ (Handled("Home") /\ before.offset = 0 /\ before.cursor_x = 0 /\ before.cursor_y = 0)
           => SameView(hv, before)
    /\ (Handled("End") /\ before.offset = LastPageStart(before)
                        /\ Pos(before) = before.filesize - 1)
           => SameView(hv, before)

C4_Witness ==
    /\ Handled("Right")
    /\ Pos(before) = before.filesize - 1
    /\ before.offset > 0
    /\ SameView(hv, before)

\* C5: whatever was accessed before, at(a) returns the byte the file holds at a,
\* and asking again returns the same byte.
C5_CacheCorrect ==
    Running =>
        \A a \in 0..(hv.filesize - 1) : \A io \in IoOutcomes :
            LET r == at(hv, a, io)
            IN r.hv.panic = "none" =>
                   /\ r.byte = FileByte(a)
                   /\ at(r.hv, a, io).byte = r.byte

\* C6: a page fill that delivered fewer bytes than the file holds there ends the
\* session, so at() never returns a byte of the unread part of a page.
C6_ShortReadsFatal ==
    Running =>
        /\ hv.page_len = Available(hv.page_address)
        /\ \A a \in 0..(hv.filesize - 1) : \A io \in IoOutcomes :
               LET r == at(hv, a, io)
               IN r.hv.panic = "none" => a - r.hv.page_address < r.hv.page_len

\* C7: every startup failure ends the process with exit code 1 before raw mode
\* or the alternate screen is entered; quitting ends it with exit code 0.
StartupFailures ==
    {"usage", "terminal not wide enough", "terminal not high enough",
     "open failed", "stat failed", "empty file"}

C7_StartupExitCodes ==
    /\ (pc = "exit" /\ exit_reason \in StartupFailures)
           => (exit_code = 1 /\ ~raw_mode /\ ~alt_screen)
    /\ (pc = "exit" /\ exit_reason = "quit") => exit_code = 0

\* C8: at the cursor position p the decode of width w (and the float of width 4
\* and 8) is shown iff p + w - 1 < filesize, and is the placeholder otherwise.
Shown(f, w) == f.avail /\ Len(f.u) = w /\ Len(f.hex) = w /\ Len(f.i.mag) = w

C8_DecodeAvailability ==
    pc = "read" =>
        LET i == hv.stdout.info
            p == Pos(hv)
        IN /\ p < hv.filesize
           /\ i.pos = p
           /\ IF p < hv.filesize THEN Shown(i.w1, 1) ELSE i.w1 = Unavailable
           /\ IF p + 1 < hv.filesize THEN Shown(i.w2, 2) ELSE i.w2 = Unavailable
           /\ IF p + 3 < hv.filesize THEN Shown(i.w4, 4) ELSE i.w4 = Unavailable
           /\ IF p + 7 < hv.filesize THEN Shown(i.w8, 8) ELSE i.w8 = Unavailable
           /\ IF p + 3 < hv.filesize THEN i.f32.avail /\ Len(i.f32.bits) = 4
                                     ELSE i.f32 = NoFloat
           /\ IF p + 7 < hv.filesize THEN i.f64.avail /\ Len(i.f64.bits) = 8
                                     ELSE i.f64 = NoFloat

\* at filesize-4 the 8/16/32-bit decodes are shown and the 64-bit ones are not
C8_Witness ==
    /\ pc = "read"
    /\ hv.filesize >= 8
    /\ Pos(hv) = hv.filesize - 4
    /\ hv.stdout.info.w1.avail /\ hv.stdout.info.w2.avail /\ hv.stdout.info.w4.avail
    /\ hv.stdout.info.f32.avail
    /\ ~hv.stdout.info.w8.avail /\ ~hv.stdout.info.f64.avail

\* C9: the unsigned value of width w is sum byte[p+i]*256^i in little-endian and
\* sum byte[p+i]*256^(w-1-i) in big-endian order, the signed value is its
\* two's-complement reading, and the two orders agree exactly on palindromes.
Window(p, w) == [k \in 1..w |-> FileByte(p + k - 1)]

\* the digit of weight 256^k of a value
DigitOfWeight(u, k) == u[Len(u) - k]

\* a value of at most two digits as a number
Num(u) == IF Len(u) = 1 THEN u[1] ELSE u[1] * 256 + u[2]

Palindrome(b) == \A k \in 1..Len(b) : b[k] = b[Len(b) + 1 - k]

\* carry out of the k lowest digits of a + b
RECURSIVE Carry(_, _, _)
Carry(a, b, k) ==
    IF k = 0 THEN 0
    ELSE (DigitOfWeight(a, k - 1) + DigitOfWeight(b, k - 1) + Carry(a, b, k - 1)) \div 256

\* a + b = 256^Len(a)
SumsToModulus(a, b) ==
    /\ \A k \in 0..(Len(a) - 1) :
           (DigitOfWeight(a, k) + DigitOfWeight(b, k) + Carry(a, b, k)) % 256 = 0
    /\ Carry(a, b, Len(a)) = 1

Assembled(f, p, w, endian) ==
    f.avail =>
        /\ \A k \in 0..(w - 1) :
               DigitOfWeight(f.u, k) =
                   IF endian = LittleEndian THEN FileByte(p + k) ELSE FileByte(p + w - 1 - k)
        /\ f.hex = f.u
        /\ f.i.neg = (DigitOfWeight(f.u, w - 1) >= 128)
        /\ IF f.i.neg THEN SumsToModulus(f.i.mag, f.u) ELSE f.i.mag = f.u
        /\ (Decode(LittleEndian, Window(p, w)) = Decode(BigEndian, Window(p, w)))
               = Palindrome(Window(p, w))

C9_ByteOrderAssembly ==
    pc = "read" =>
        LET i == hv.stdout.info
            p == Pos(hv)
            e == hv.endian
        IN /\ i.endian = e
           /\ Assembled(i.w2, p, 2, e)
           /\ Assembled(i.w4, p, 4, e)
           /\ Assembled(i.w8, p, 8, e)
           /\ i.w2.avail =>
                  /\ Num(i.w2.u) = IF e = LittleEndian
                                   THEN FileByte(p) + 256 * FileByte(p + 1)
                                   ELSE 256 * FileByte(p) + FileByte(p + 1)
                  /\ (IF i.w2.i.neg THEN 0 - Num(i.w2.i.mag) ELSE Num(i.w2.i.mag)) =
                         IF Num(i.w2.u) >= 32768 THEN Num(i.w2.u) - 65536 ELSE Num(i.w2.u)
                  /\ (FileByte(p) = 1 /\ FileByte(p + 1) = 2) =>
                         Num(i.w2.u) = IF e = LittleEndian THEN 513 ELSE 258
           /\ i.f32.avail => i.f32.bits = i.w4.u
           /\ i.f64.avail => i.f64.bits = i.w8.u

\* a negative big-endian 64-bit value whose window is no palindrome
C9_Witness ==
    /\ pc = "read"
    /\ hv.endian = BigEndian
    /\ hv.stdout.info.w8.avail
    /\ hv.stdout.info.w8.i.neg
    /\ ~Palindrome(Window(Pos(hv), 8))
    /\ Palindrome(Window(Pos(hv), 2))

\* C10: 'e' flips the byte order, 'l' leaves it little, 'b' leaves it big, two
\* toggles restore it, the session starts little-endian, and none of the three
\* moves offset or cursor.
SamePlace(a, b) ==
    a.offset = b.offset /\ a.cursor_x = b.cursor_x /\ a.cursor_y = b.cursor_y

C10_ByteOrderCommands ==
    /\ Handled("e") => (hv.endian # before.endian /\ SamePlace(hv, before))
    /\ Handled("l") => (hv.endian = LittleEndian /\ SamePlace(hv, before))
    /\ Handled("b") => (hv.endian = BigEndian /\ SamePlace(hv, before))
    /\ pc = "read" =>
           \A io \in IoOutcomes :
               toggle_endianness(toggle_endianness(hv, io), io).endian = hv.endian
    /\ (pc = "draw" /\ last_key = "none") => hv.endian = LittleEndian
    /\ Running => hv.endian \in {LittleEndian, BigEndian}

C10_Witness ==
    /\ Handled("l")
    /\ before.endian = BigEndian
    /\ hv.endian = LittleEndian
    /\ Pos(hv) > 0

\* the navigation commands
Navigation == {"Right", "Left", "Up", "Down", "PageUp", "PageDown", "Home", "End"}

AtStart(s) == s.offset = 0 /\ s.cursor_x = 0 /\ s.cursor_y = 0

\* C11: a one-byte file loads, every command leaves offset = 0 and the cursor at
\* (0,0), no command ends the session, and every decode of width >= 2 is
\* unavailable throughout.
C11_OneByteFile ==
    disk.size = 1 =>
        /\ exit_reason \in {"none", "quit", "not a tty", "usage", "open failed",
                             "stat failed", "terminal not wide enough",
                             "terminal not high enough"}
        /\ Running =>
               /\ hv.filesize = 1
               /\ hv.view_height >= 4
               /\ AtStart(hv)
               /\ hv.stdout.info.w2 = Unavailable
               /\ hv.stdout.info.w4 = Unavailable
               /\ hv.stdout.info.w8 = Unavailable
               /\ hv.stdout.info.f32 = NoFloat
               /\ hv.stdout.info.f64 = NoFloat
               /\ pc = "read" => hv.stdout.info.w1.avail

C11_Witness ==
    /\ Handled("PageDown")
    /\ hv.filesize = 1
    /\ hv.view_height > 4
    /\ AtStart(hv)
    /\ ~hv.update_needed

\* C12 (as stated): Up moves from p to p-16 with cursor_x unchanged, except that
\* whenever p-16 is below 16 it jumps to offset = 0, cursor = (0,0).
C12_UpAsStated ==
    Handled("Up") =>
        IF Pos(before) - 16 < 16
        THEN AtStart(hv)
        ELSE /\ Pos(hv) = Pos(before) - 16
             /\ hv.cursor_x = before.cursor_x

\* C12 (amended): Up at p = 0 changes nothing; at 0 < p < 16 it jumps to offset = 0,
\* cursor = (0,0); at p >= 16 it moves to p-16 with cursor_x unchanged, and offset
\* drops by 16 exactly when cursor_y was 0 (else cursor_y drops by one).
C12_UpRetreats ==
    Handled("Up") =>
        LET p == Pos(before)
        IN IF p = 0 THEN SameView(hv, before)
           ELSE IF p < 16 THEN AtStart(hv)
           ELSE /\ Pos(hv) = p - 16
                /\ hv.cursor_x = before.cursor_x
                /\ IF before.cursor_y = 0
                   THEN hv.offset = before.offset - 16 /\ hv.cursor_y = 0
                   ELSE hv.offset = before.offset /\ hv.cursor_y = before.cursor_y - 1

\* Up from the second row keeps the column
C12_Witness ==
    /\ Handled("Up")
    /\ Pos(before) = 17
    /\ Pos(hv) = 1
    /\ before.offset = 16

\* C13: Down at p with p+16 < filesize moves to p+16 with cursor_x unchanged, and
\* offset grows by 16 only when cursor_y was view_height-1; with p+16 >= filesize
\* offset is unchanged, no full redraw is requested and the cursor lands on
\* filesize-1 (nothing changes when it is already there).
C13_DownMoves ==
    Handled("Down") =>
        LET p == Pos(before)
        IN IF p + 16 < before.filesize
           THEN /\ Pos(hv) = p + 16
                /\ hv.cursor_x = before.cursor_x
                /\ hv.offset = IF before.cursor_y = before.view_height - 1
                               THEN before.offset + 16 ELSE before.offset
           ELSE /\ hv.offset = before.offset
                /\ ~hv.update_needed
                /\ Pos(hv) = before.filesize - 1
                /\ p = before.filesize - 1 => SameView(hv, before)

\* C14: Right at p with p+1 < filesize yields p+1 and Left at p > 0 yields p-1;
\* offset moves (+16 for Right, -16 for Left) only when the cursor wraps past the
\* last column of the bottom row or the first column of the top row; Right then
\* Left restores the position.
C14_RightLeftByOne ==
    /\ (Handled("Right") /\ Pos(before) + 1 < before.filesize) =>
           /\ Pos(hv) = Pos(before) + 1
           /\ hv.offset = IF before.cursor_x = 15 /\ before.cursor_y = before.view_height - 1
                          THEN before.offset + 16 ELSE before.offset
    /\ (Handled("Left") /\ Pos(before) > 0) =>
           /\ Pos(hv) = Pos(before) - 1
           /\ hv.offset = IF before.cursor_x = 0 /\ before.cursor_y = 0
                          THEN before.offset - 16 ELSE before.offset
    /\ (pc = "read" /\ Pos(hv) + 1 < hv.filesize) =>
           \A io \in IoOutcomes :
               Pos(key_left(draw_screen(key_right(hv, io), io), io)) = Pos(hv)

\* C15: PageDown with offset + one_page < end_offset adds one_page to offset and
\* leaves cursor_x, cursor_y; otherwise it leaves the End state (offset =
\* end_offset, cursor on filesize-1). Either way offset <= end_offset.
C15_PageDown ==
    Handled("PageDown") =>
        LET one_page == before.view_height * 16
            end_offset == LastPageStart(before)
        IN /\ IF before.offset + one_page < end_offset
              THEN /\ hv.offset = before.offset + one_page
                   /\ hv.cursor_x = before.cursor_x
                   /\ hv.cursor_y = before.cursor_y
              ELSE /\ hv.offset = end_offset
                   /\ Pos(hv) = hv.filesize - 1
                   /\ \A io \in IoOutcomes : SamePlace(hv, key_end(before, io))
           /\ hv.offset <= end_offset

C15_Witness ==
    /\ Handled("PageDown")
    /\ before.offset > 0
    /\ before.offset + before.view_height * 16 = LastPageStart(before)
    /\ Pos(before) # before.filesize - 1
    /\ Pos(hv) = hv.filesize - 1

\* C16: PageUp with R = offset + cursor_y*16: if R >= one_page the position drops
\* by one_page with cursor_x unchanged (offset 0 when R < 2*one_page, else offset -
\* one_page) and offset never underflows; if R < one_page offset is unchanged and
\* the cursor goes to row 0 when cursor_y > 0, else to column 0, else nothing changes.
C16_PageUp ==
    /\ exit_reason # "assert key_pageup"
    /\ Handled("PageUp") =>
           LET one_page == before.view_height * 16
               R == before.offset + before.cursor_y * 16
           IN IF R >= one_page
              THEN /\ Pos(hv) = Pos(before) - one_page
                   /\ hv.cursor_x = before.cursor_x
                   /\ hv.offset = IF R < 2 * one_page THEN 0 ELSE before.offset - one_page
                   /\ hv.offset >= 0
              ELSE /\ hv.offset = before.offset
                   /\ IF before.cursor_y > 0
                      THEN hv.cursor_y = 0
                      ELSE IF before.cursor_x > 0
                      THEN hv.cursor_x = 0 /\ hv.cursor_y = 0
                      ELSE SameView(hv, before)

C16_Witness ==
    /\ Handled("PageUp")
    /\ before.offset + before.cursor_y * 16 >= before.view_height * 16
    /\ before.offset + before.cursor_y * 16 < 2 * before.view_height * 16
    /\ before.offset > 0
    /\ before.cursor_x > 0
    /\ hv.cursor_y > 0
    /\ hv.offset = 0

\* C19: in every reachable state offset <= end_offset = max(0, ceil(filesize/16)*16
\* - view_height*16); offset stays 0 for every file with filesize <= view_height*16.
C19_NeverPastLastPage ==
    Running =>
        /\ hv.offset <= LastPageStart(hv)
        /\ hv.filesize <= hv.view_height * 16 => hv.offset = 0

\* Right scrolls onto the last page
C19_Witness ==
    /\ Handled("Right")
    /\ hv.offset = before.offset + 16
    /\ hv.offset = LastPageStart(hv)

\* C20: from any state at p with p+16 < filesize, Down then Up returns the cursor
\* to p with the same cursor_x.
C20_DownUpRoundTrip ==
    (pc = "read" /\ Pos(hv) + 16 < hv.filesize) =>
        \A io \in IoOutcomes :
            LET u == key_up(draw_screen(key_down(hv, io), io), io)
            IN /\ u.panic = "none"
               /\ Pos(u) = Pos(hv)
               /\ u.cursor_x = hv.cursor_x

\* ---- the redraw directive ----
InWindow(s) == s.cursor_y < s.view_height

Moved(a, b) == a.cursor_x # b.cursor_x \/ a.cursor_y # b.cursor_y

\* the cursor cell and the info pane on the terminal are those of the cursor of s
CursorRedrawn(s) ==
    /\ s.stdout.cursor.shown
    /\ s.stdout.cursor.x = s.cursor_x
    /\ s.stdout.cursor.y = s.cursor_y
    /\ s.stdout.info.pos = Pos(s)

\* the addresses a cursor-only redraw from b to a reads: the old cursor byte, the
\* new one, and the bytes of the widest decode available at the new position
RedrawReads(b, a) ==
    {Pos(b)} \cup
    {Pos(a) + k : k \in {k \in 0..7 : \E w \in {1, 2, 4, 8} :
                                        k < w /\ Pos(a) + w - 1 < a.filesize}}

\* C17 (as stated): a navigation command that changes offset leaves a full redraw
\* pending; one that only moves the cursor within the visible window redraws the
\* cursor and leaves no full redraw pending.
C17_RedrawAsStated ==
    \A key \in Navigation :
        Handled(key) =>
            /\ hv.offset # before.offset => hv.update_needed
            /\ (hv.offset = before.offset /\ InWindow(before) /\ InWindow(hv)) =>
                   ~hv.update_needed /\ CursorRedrawn(hv)

\* C17 (amended): a navigation command that changes offset leaves a full redraw
\* pending; one that leaves offset unchanged with the cursor within the visible
\* window redraws the cursor and leaves no full redraw pending when every byte it
\* reads is in the cached page, and leaves a full redraw pending when the cursor
\* moved and one of those bytes is outside the cached page.
C17_RedrawDirective ==
    \A key \in Navigation :
        Handled(key) =>
            /\ hv.offset # before.offset => hv.update_needed
            /\ (hv.offset = before.offset /\ InWindow(before) /\ InWindow(hv)) =>
                   IF Moved(before, hv) /\ \E a \in RedrawReads(before, hv) : ~InPage(before, a)
                   THEN hv.update_needed
                   ELSE ~hv.update_needed /\ CursorRedrawn(hv)

\* Up across the page boundary within the window: the refill asks for a redraw
C17_Witness ==
    /\ Handled("Up")
    /\ hv.offset = before.offset
    /\ InWindow(before) /\ InWindow(hv)
    /\ before.page_address = HEX_PAGESIZE
    /\ hv.page_address = 0
    /\ hv.update_needed

\* C18: page_address is a multiple of the page size; right after at(a) returns,
\* page_address <= a < page_address + PAGE_SIZE; every cached byte at an address
\* >= filesize is zero; an at() that hits the cached page changes neither
\* page_address nor the buffer.
C18_PageInvariant ==
    pc = "draw" =>
        /\ hv.page_address % 1024 = 0
        /\ \A i \in 0..1023 : hv.page_address + i >= hv.filesize => page(hv, i) = 0
        /\ \A a \in 0..(hv.filesize - 1) : \A io \in IoOutcomes :
               LET r == at(hv, a, io).hv
               IN /\ r.panic = "none"
                  /\ r.page_address <= a /\ a < r.page_address + 1024
                  /\ (hv.page_address <= a /\ a < hv.page_address + 1024) =>
                         /\ r.page_address = hv.page_address
                         /\ \A i \in {0, r.page_len - 1, r.page_len, 1023} :
                                i >= 0 => page(r, i) = page(hv, i)
                         /\ r = hv

\* a miss on the short last page replaces it by the first page
C18_Witness ==
    /\ pc = "draw"
    /\ last_key = "at"
    /\ before.page_address = 2048
    /\ before.page_len < 1024
    /\ hv.page_address = 0
    /\ hv.page_len = 1024

\* C23: every time the loop blocks for input no full redraw is pending and the
\* cached page contains the cursor's position, so the erase_cursor that starts the
\* next command causes no page fault.
C23_QuiescentAtInputWait ==
    pc = "read" =>
        /\ ~hv.update_needed
        /\ hv.page_address <= Pos(hv)
        /\ Pos(hv) < hv.page_address + 1024
        /\ \A io \in IoOutcomes :
               LET e == erase_cursor(hv, io)
               IN /\ e.panic = "none"
                  /\ e.page_address = hv.page_address
                  /\ e.page_len = hv.page_len
                  /\ ~e.update_needed

\* the decodes at the cursor reach into the next page, the cursor's page is cached
C23_Witness ==
    /\ pc = "read"
    /\ Pos(hv) < HEX_PAGESIZE
    /\ Pos(hv) + 7 >= HEX_PAGESIZE
    /\ hv.stdout.info.w8.avail
    /\ hv.page_address = 0

\* ---- a key pressed repeatedly ----
\* the HexView when the loop blocks again after `key` was pressed n times
RECURSIVE Pressed(_, _, _, _)
Pressed(s, key, n, io) ==
    IF n = 0 \/ s.panic # "none" THEN s
    ELSE Pressed(draw_screen(key_event(s, key, io), io), key, n - 1, io)

\* the End state
AtEnd(s) == s.offset = LastPageStart(s) /\ Pos(s) = s.filesize - 1

\* C21: from any reachable state, PageDown pressed repeatedly reaches the End state
\* (offset = end_offset, cursor on filesize-1) after finitely many presses, and
\* every further PageDown changes nothing.
C21_PageDownReachesEnd ==
    pc = "read" =>
        \A io \in IoOutcomes :
            \E n \in 0..MaxPresses :
                LET e == Pressed(hv, "PageDown", n, io)
                IN /\ e.panic = "none"
                   /\ AtEnd(e)
                   /\ key_event(e, "PageDown", io) = e

\* C22: PageUp never increases the absolute position, and pressed repeatedly it
\* reaches after finitely many presses a state with cursor_x = 0, cursor_y = 0 and
\* offset < view_height*16 in which every further PageUp changes nothing.
C22_PageUpConverges ==
    /\ Handled("PageUp") => Pos(hv) <= Pos(before)
    /\ pc = "read" =>
           \A io \in IoOutcomes :
               \E n \in 0..MaxPresses :
                   LET e == Pressed(hv, "PageUp", n, io)
                   IN /\ e.panic = "none"
                      /\ e.cursor_x = 0
                      /\ e.cursor_y = 0
                      /\ e.offset < e.view_height * 16
                      /\ key_event(e, "PageUp", io) = e

\* a state two pages down with the cursor off column 0: three presses are needed
C22_Witness ==
    /\ pc = "read"
    /\ hv.offset + hv.cursor_y * 16 >= 2 * hv.view_height * 16
    /\ hv.cursor_x > 0
    /\ Pressed(hv, "PageUp", 2, Delivered).cursor_x > 0
    /\ Pressed(hv, "PageUp", 3, Delivered).cursor_x = 0

\* C24: whenever Down takes its clamp branch, filesize - 1 - offset is below 65536
\* for every view_height from 4 to 65535 - 6, so the cursor row and column it
\* computes are those of byte filesize-1.
C24_ClampNarrowsLosslessly ==
    (/\ Handled("Down")
     /\ before.view_height >= 4
     /\ before.view_height <= 65535 - 6
     /\ before.offset + (before.cursor_y + 1) * 16 + before.cursor_x >= before.filesize) =>
        LET eof == before.filesize - 1 - before.offset
        IN /\ eof < 65536
           /\ hv.cursor_y = eof \div 16
           /\ hv.cursor_x = eof % 16
           /\ Pos(hv) = hv.filesize - 1

====
